---- MODULE Spec2Model ----
(***************************************************************************)
(* Cat vs Dog classifier (Streamlit app).                                  *)
(*                                                                         *)
(* The process serves browser sessions.  Every user event makes Streamlit  *)
(* rerun the script, i.e. main() (src/app.py), top to bottom for that      *)
(* session.  st.session_state is per session; the st.cache_resource entry  *)
(* of load_model and the artifact file on disk are per process.            *)
(*                                                                         *)
(* Probabilities are fixed-point numbers in hundredths (Scale = 1.0).      *)
(***************************************************************************)
EXTENDS Integers, Sequences, FiniteSets, TLC

\* The literal 1 of "cat_prob = 1 - prob", in hundredths.
Scale == 100

\* ---- bounds of the model ------------------------------------------------
\* Predictions a session may complete (caps the session counters).
MaxPredictions == 2
\* Longest raw output vector drawn for the result interpreter.
MaxOut == 3

Sessions == {1, 2}

\* ---- text ----------------------------------------------------------------
\* str.lower() on the characters file names are built from.
Lower(c) ==
    CASE c = "J" -> "j" [] c = "P" -> "p" [] c = "G" -> "g" [] c = "E" -> "e"
      [] c = "N" -> "n" [] c = "B" -> "b" [] c = "M" -> "m" [] c = "I" -> "i"
      [] c = "F" -> "f" [] OTHER -> c

LowerStr(s) == [i \in 1..Len(s) |-> Lower(s[i])]

\* Index of the last "." of a name, 0 when it has none.
LastDot(name) ==
    LET dots == {i \in 1..Len(name) : name[i] = "."}
    IN  IF dots = {} THEN 0 ELSE CHOOSE i \in dots : \A j \in dots : j <= i

\* uploaded_file.name.split('.')[-1].lower()
file_extension(name) == LowerStr(SubSeq(name, LastDot(name) + 1, Len(name)))

IMAGE_SIZE == <<224, 224>>
ALLOWED_EXTENSIONS ==
    {<<"j","p","g">>, <<"j","p","e","g">>, <<"p","n","g">>, <<"b","m","p">>}

\* 10 * 1024 * 1024
SIZE_CAP == 10 * 1024 * 1024

\* ---- uploads -------------------------------------------------------------
\* What the bytes of an upload decode to.
Corrupt == [kind |-> "corrupt", mode |-> "-", w |-> 0, h |-> 0, pix |-> "-"]
Picture(mode, w, h, pix) ==
    [kind |-> "image", mode |-> mode, w |-> w, h |-> h, pix |-> pix]

NoFile == [name |-> <<>>, size |-> 0, content |-> Corrupt, none |-> TRUE]
Upload(name, size, content) ==
    [name |-> name, size |-> size, content |-> content, none |-> FALSE]

\* The uploads a user may pick.  The uploader widget's own type filter is
\* enforced by the browser side of the framework, so validate_image can be
\* handed any name.
Files ==
    { Upload(<<"a",".","g","i","f">>, 2048, Picture("P", 64, 64, "A")),
      Upload(<<"b","i","g",".","p","n","g">>, SIZE_CAP + 512 * 1024,
             Picture("RGB", 500, 300, "A")),
      Upload(<<"x",".","j","p","g">>, 2048, Corrupt),
      Upload(<<"d",".","J","P","G">>, 2048, Picture("RGB", 500, 300, "A")),
      Upload(<<"c",".","v","1",".","p","n","g">>, SIZE_CAP,
             Picture("RGBA", 300, 500, "B")) }

\* ---- validate_image ------------------------------------------------------
\* The outcome of validate_image: the value returned and the st.error calls.
bad_validate_image(f) ==
    IF f.none THEN [ok |-> FALSE, errors |-> <<>>]
    ELSE IF file_extension(f.name) \notin ALLOWED_EXTENSIONS
    THEN [ok |-> FALSE, errors |-> <<"Unsupported file format">>]
    ELSE [ok |-> TRUE, errors |-> <<>>]

\* The cap itself counted as too large.
strict_validate_image(f) ==
    IF f.none THEN [ok |-> FALSE, errors |-> <<>>]
    ELSE IF file_extension(f.name) \notin ALLOWED_EXTENSIONS
    THEN [ok |-> FALSE, errors |-> <<"Unsupported file format">>]
    ELSE IF f.size >= SIZE_CAP
    THEN [ok |-> FALSE, errors |-> <<"File too large">>]
    ELSE [ok |-> TRUE, errors |-> <<>>]

validate_image(f) ==
    IF f.none THEN [ok |-> FALSE, errors |-> <<>>]
    ELSE IF file_extension(f.name) \notin ALLOWED_EXTENSIONS
    THEN [ok |-> FALSE, errors |-> <<"Unsupported file format">>]
    ELSE IF f.size > SIZE_CAP
    THEN [ok |-> FALSE, errors |-> <<"File too large">>]
    ELSE [ok |-> TRUE, errors |-> <<>>]

\* ---- preprocess_image ----------------------------------------------------
NoTensor == [none |-> TRUE, what |-> "tensor"]

\* The length of the last axis np.array gives an image of each PIL mode.
Bands(mode) ==
    CASE mode = "RGB" -> 3 [] mode = "RGBA" -> 4 [] mode = "CMYK" -> 4
      [] OTHER -> 1

\* A decode failure that is reported but answered with a blank tensor.
bad_preprocess_image(f) ==
    LET rgb     == [f.content EXCEPT !.mode = "RGB"]
        resized == [rgb EXCEPT !.w = IMAGE_SIZE[1], !.h = IMAGE_SIZE[2]]
    IN  [tensor |-> [none |-> FALSE,
                     shape |-> <<1, resized.h, resized.w, 3>>,
                     pix |-> IF f.content.kind = "image" THEN resized.pix
                             ELSE "A"],
         steps |-> <<>>,
         errors |-> IF f.content.kind = "image" THEN <<>>
                    ELSE <<"Error processing image">>]

\* The image resized in the mode it was opened in.
unconverted_preprocess_image(f) ==
    IF f.content.kind # "image"
    THEN [tensor |-> NoTensor, steps |-> <<"Image.open">>,
          errors |-> <<"Error processing image">>]
    ELSE LET image   == f.content
             resized == [image EXCEPT !.w = IMAGE_SIZE[1],
                                      !.h = IMAGE_SIZE[2]]
         IN  [tensor |-> [none |-> FALSE,
                          shape |-> <<1, resized.h, resized.w,
                                      Bands(resized.mode)>>,
                          pix |-> resized.pix],
              steps |-> <<"Image.open", "copy", "resize", "np.array",
                          "expand_dims", "preprocess_input">>,
              errors |-> <<>>]

\* Image.open raises on bytes that are no image; otherwise convert to RGB
\* unless the mode is RGB already, resize to IMAGE_SIZE (width, height),
\* np.array (height, width, bands), add the batch axis, preprocess_input.
preprocess_image(f) ==
    IF f.content.kind # "image"
    THEN [tensor |-> NoTensor, steps |-> <<"Image.open">>,
          errors |-> <<"Error processing image">>]
    ELSE LET opened  == f.content
             image   == IF opened.mode # "RGB"
                        THEN [opened EXCEPT !.mode = "RGB"] ELSE opened
             resized == [image EXCEPT !.w = IMAGE_SIZE[1],
                                      !.h = IMAGE_SIZE[2]]
         IN  [tensor |-> [none |-> FALSE,
                          shape |-> <<1, resized.h, resized.w,
                                      Bands(resized.mode)>>,
                          pix |-> resized.pix],
              steps |-> <<"Image.open">>
                          \o (IF opened.mode # "RGB" THEN <<"convert">>
                              ELSE <<>>)
                          \o <<"copy", "resize", "np.array", "expand_dims",
                               "preprocess_input">>,
              errors |-> <<>>]

\* ---- the Keras model -------------------------------------------------------
\* A loaded model is its forward pass: whether model.predict raises on the
\* app's tensors (an artifact built for another input shape), and the output
\* row predictions[0] it yields for each picture.
NoModel == [none |-> TRUE, what |-> "model"]
Net(raises, outA, outB) ==
    [none |-> FALSE, raises |-> raises, A |-> outA, B |-> outB]

Sigmoid  == Net(FALSE, <<80>>, <<35>>)
Softmax  == Net(FALSE, <<20, 80>>, <<50, 50>>)
Mismatch == Net(TRUE, <<>>, <<>>)
Models   == {Sigmoid, Softmax, Mismatch}

\* model.predict(processed_image, verbose=0)[0]
model_predict(model, tensor) ==
    IF model.raises THEN [raised |-> TRUE, row |-> <<>>]
    ELSE [raised |-> FALSE,
          row |-> IF tensor.pix = "A" THEN model.A ELSE model.B]

\* ---- predict_image -------------------------------------------------------
None == [none |-> TRUE, what |-> "results"]

Max(a, b) == IF a >= b THEN a ELSE b

bad_Result(cat_prob, dog_prob) ==
    [none |-> FALSE,
     predicted_class |-> IF dog_prob >= cat_prob THEN "Dog" ELSE "Cat",
     confidence |-> Max(cat_prob, dog_prob),
     cat_probability |-> cat_prob,
     dog_probability |-> dog_prob,
     all_probabilities |-> [Cat |-> cat_prob, Dog |-> dog_prob]]

\* The dog probability reported as the confidence whatever the label.
dogconf_Result(cat_prob, dog_prob) ==
    [none |-> FALSE,
     predicted_class |-> IF dog_prob > cat_prob THEN "Dog" ELSE "Cat",
     confidence |-> dog_prob,
     cat_probability |-> cat_prob,
     dog_probability |-> dog_prob,
     all_probabilities |-> [Cat |-> cat_prob, Dog |-> dog_prob]]

\* Lines 75-89.
Result(cat_prob, dog_prob) ==
    [none |-> FALSE,
     predicted_class |-> IF dog_prob > cat_prob THEN "Dog" ELSE "Cat",
     confidence |-> Max(cat_prob, dog_prob),
     cat_probability |-> cat_prob,
     dog_probability |-> dog_prob,
     all_probabilities |-> [Cat |-> cat_prob, Dog |-> dog_prob]]

\* The sigmoid branch without its "1 -".
bad_interpret(row) ==
    IF Len(row) = 1 THEN Result(row[1], row[1])
    ELSE IF Len(row) >= 2 THEN Result(row[1], row[2])
    ELSE None

\* The sigmoid scalar read as the cat probability.
flipped_interpret(row) ==
    IF Len(row) = 1 THEN Result(row[1], Scale - row[1])
    ELSE IF Len(row) >= 2 THEN Result(row[1], row[2])
    ELSE None

\* Lines 64-91: the result dict for an output row; None stands for the
\* IndexError an empty row raises into the except clause.
interpret(row) ==
    IF Len(row) = 1 THEN Result(Scale - row[1], row[1])
    ELSE IF Len(row) >= 2 THEN Result(row[1], row[2])
    ELSE None

\* The value returned and the st.error calls made.
predict_image(model, tensor) ==
    IF model = NoModel THEN [results |-> None, errors |-> <<>>]
    ELSE LET fwd == model_predict(model, tensor)
             res == IF fwd.raised THEN None ELSE interpret(fwd.row)
         IN  [results |-> res,
              errors |-> IF res = None THEN <<"Error making prediction">>
                         ELSE <<>>]

\* ---- load_model ----------------------------------------------------------
\* The artifact file vgg16_cat_dog_classifier.h5.
Absent       == [present |-> FALSE, net |-> NoModel]
Garbage      == [present |-> TRUE, net |-> NoModel]
Artifact(m)  == [present |-> TRUE, net |-> m]
DiskStates   == {Absent, Garbage} \cup {Artifact(m) : m \in Models}

\* What gdown.download can do: write the file (whatever the URL served),
\* raise, or give up returning None with no file written.
Downloads ==
    {[kind |-> "wrote", file |-> d] : d \in DiskStates \ {Absent}}
      \cup {[kind |-> "raised", file |-> Absent],
            [kind |-> "gave_up", file |-> Absent]}

\* The body of load_model (lines 23-44), run on a cache miss: the model
\* returned, the file left on disk, the calls made in order, the st.error
\* calls.
load_model_body(file, dl) ==
    LET fetch   == ~file.present
        after   == IF fetch /\ dl.kind = "wrote" THEN dl.file ELSE file
        aborted == fetch /\ dl.kind = "raised"
        calls   == (IF fetch THEN <<"gdown.download">> ELSE <<>>)
                   \o (IF fetch /\ ~aborted
                       THEN <<"Model downloaded successfully">> ELSE <<>>)
                   \o (IF aborted THEN <<>> ELSE <<"keras.load_model">>)
        model   == IF aborted \/ ~after.present THEN NoModel ELSE after.net
    IN  [model |-> model, disk |-> after, calls |-> calls,
         errors |-> IF model = NoModel THEN <<"Error loading model">>
                    ELSE <<>>]

\* ---- state ----------------------------------------------------------------
VARIABLES
    disk,      \* the artifact file of the process's working directory
    cache,     \* the st.cache_resource entry of load_model
    loadRuns,  \* how many times the body of load_model has executed
    loadCalls, \* the calls made by the body of load_model, in order
    ss,        \* ss[s]: st.session_state of session s
    widgets,   \* widgets[s]: the uploader's file, the slider's value and
               \* the "Show Probability Charts" toggle
    pc,        \* pc[s]: where the script run of session s stands
    run,       \* run[s]: what the current (or last) script run did
    net,       \* the model handed to predict_image on its own
    answer,    \* what predict_image returned for net
    photo,     \* the upload handed to the image functions on their own
    verdict,   \* what validate_image did with photo
    prepared   \* what preprocess_image did with photo

vars == <<disk, cache, loadRuns, loadCalls, ss, widgets, pc, run, net, answer,
          photo, verdict, prepared>>
procVars == <<disk, cache, loadRuns, loadCalls>>
unitVars == <<net, answer, photo, verdict, prepared>>

FreshSession ==
    [keys |-> {}, model |-> NoModel, model_loaded |-> FALSE,
     predictions_made |-> 0, cats_detected |-> 0, dogs_detected |-> 0]

\* The slider: min 0.5, max 1.0, value 0.8, step 0.05; four of its stops.
Thresholds == {50, 65, 80, 100}
DefaultThreshold == 80

NoRun ==
    [trace |-> <<>>, errors |-> <<>>, tensor |-> NoTensor, results |-> None,
     shown |-> <<>>, view |-> "none", label |-> "none", clicked |-> FALSE, pre |-> FreshSession,
     outcome |-> "none", afterBadImage |-> FALSE]

\* Did run r call f / show error e; the same for the run of session s.
CalledIn(r, f) == \E i \in 1..Len(r.trace) : r.trace[i] = f
ReportedIn(r, e) == \E i \in 1..Len(r.errors) : r.errors[i] = e
Called(s, f) == CalledIn(run[s], f)
Reported(s, e) == ReportedIn(run[s], e)

Pending == [none |-> TRUE, what |-> "pending"]

\* The process has just started: the browsers in `live` are connected, the
\* others never connect ("closed").
InitWith(disks, live) ==
    /\ disk \in disks
    /\ cache = [hit |-> FALSE, value |-> NoModel]
    /\ loadRuns = 0
    /\ loadCalls = <<>>
    /\ ss = [s \in Sessions |-> FreshSession]
    /\ widgets = [s \in Sessions |->
                    [uploaded_file |-> NoFile,
                     confidence_threshold |-> DefaultThreshold,
                     show_probabilities |-> TRUE]]
    /\ pc = [s \in Sessions |-> IF s \in live THEN "idle" ELSE "closed"]
    /\ run = [s \in Sessions |-> NoRun]

\* The image functions are not being exercised on their own.
ImageIdle == photo = NoFile /\ verdict = Pending /\ prepared = Pending

\* No function is being exercised on its own.
UnitIdle == net = NoModel /\ answer = Pending /\ ImageIdle

\* ---- user events: each one starts a script run ---------------------------
StartRun(s, clicked) ==
    /\ pc[s] = "idle"
    /\ pc' = [pc EXCEPT ![s] = "load"]
    /\ run' = [run EXCEPT ![s] =
                 [NoRun EXCEPT !.clicked = clicked, !.pre = ss[s],
                               !.outcome = "running",
                               !.afterBadImage =
                                   Reported(s, "Failed to process the image")]]
    /\ UNCHANGED <<procVars, ss, unitVars>>

\* The page is opened or reloaded by the framework with the widgets as they are.
Rerun(s) ==
    /\ StartRun(s, FALSE)
    /\ UNCHANGED widgets

MoveSlider(s, t) ==
    /\ Called(s, "render_sidebar")
    /\ t # widgets[s].confidence_threshold
    /\ StartRun(s, FALSE)
    /\ widgets' = [widgets EXCEPT ![s].confidence_threshold = t]

UploadFile(s, f) ==
    /\ Called(s, "render_file_uploader")
    /\ f # widgets[s].uploaded_file
    /\ StartRun(s, FALSE)
    /\ widgets' = [widgets EXCEPT ![s].uploaded_file = f]

\* A display option is switched.
ToggleOption(s) ==
    /\ Called(s, "render_sidebar")
    /\ StartRun(s, FALSE)
    /\ widgets' = [widgets EXCEPT ![s].show_probabilities = ~@]

ClickPredict(s) ==
    /\ Called(s, "render_prediction_button")
    /\ ss[s].predictions_made < MaxPredictions
    /\ StartRun(s, TRUE)
    /\ UNCHANGED widgets

\* ---- load_model behind st.cache_resource ----------------------------------
\* load_model without its @st.cache_resource.
bad_load_model(c, file, dl) ==
    LET body == load_model_body(file, dl)
    IN  [model |-> body.model, cache |-> c, disk |-> body.disk, ran |-> TRUE,
         calls |-> body.calls, errors |-> body.errors]

\* A hit returns the cached value and replays the st.error of the cached call;
\* a miss runs the body and caches what it returned, None included.
load_model(c, file, dl) ==
    IF c.hit
    THEN [model |-> c.value, cache |-> c, disk |-> file, ran |-> FALSE,
          calls |-> <<>>,
          errors |-> IF c.value = NoModel THEN <<"Error loading model">>
                     ELSE <<>>]
    ELSE LET body == load_model_body(file, dl)
         IN  [model |-> body.model,
              cache |-> [hit |-> TRUE, value |-> body.model],
              disk |-> body.disk, ran |-> TRUE, calls |-> body.calls,
              errors |-> body.errors]

\* ---- render_sidebar ------------------------------------------------------
\* The counters are created at 0 when absent and shown as metrics.
render_sidebar(st, model) ==
    LET st1 == [st EXCEPT !.keys = @ \cup {"predictions_made",
                                           "cats_detected", "dogs_detected"}]
    IN  [state |-> st1,
         shown |-> <<st1.predictions_made, st1.cats_detected,
                     st1.dogs_detected>>,
         errors |-> IF model = NoModel THEN <<"Model not loaded">> ELSE <<>>]

\* ---- render_image_display ------------------------------------------------
\* The verdict of validate_image shown but not acted on.
bad_render_image_display(f) ==
    LET v == validate_image(f)
        p == preprocess_image(f)
    IN  [tensor |-> p.tensor,
         calls |-> <<"validate_image", "preprocess_image">>,
         errors |-> v.errors \o p.errors]

\* Lines 142-156.
render_image_display(f) ==
    LET v == validate_image(f)
        p == preprocess_image(f)
    IN  IF ~v.ok
        THEN [tensor |-> NoTensor, calls |-> <<"validate_image">>,
              errors |-> v.errors \o <<"Invalid image file">>]
        ELSE IF p.tensor = NoTensor
        THEN [tensor |-> NoTensor,
              calls |-> <<"validate_image", "preprocess_image">>,
              errors |-> p.errors \o <<"Failed to process the image">>]
        ELSE [tensor |-> p.tensor,
              calls |-> <<"validate_image", "preprocess_image">>,
              errors |-> p.errors]

\* ---- render_prediction_results -------------------------------------------
\* Statistics kept for reliable predictions only.
quiet_render_prediction_results(st, results, settings) ==
    IF results = None
    THEN [state |-> st, view |-> "none", label |-> "none", calls |-> <<>>,
          errors |-> <<"Could not generate prediction">>]
    ELSE [state |->
            IF results.confidence < settings.confidence_threshold THEN st
            ELSE [st EXCEPT !.predictions_made = @ + 1,
                            !.cats_detected =
                                IF results.predicted_class = "Cat"
                                THEN @ + 1 ELSE @,
                            !.dogs_detected =
                                IF results.predicted_class = "Cat"
                                THEN @ ELSE @ + 1],
          view |-> IF results.confidence >= settings.confidence_threshold
                   THEN "reliable" ELSE "uncertain",
          label |-> results.predicted_class,
          calls |-> IF settings.show_probabilities
                    THEN <<"render_probability_section">> ELSE <<>>,
          errors |-> <<>>]

\* The two tallies swapped.
swapped_render_prediction_results(st, results, settings) ==
    IF results = None
    THEN [state |-> st, view |-> "none", label |-> "none", calls |-> <<>>,
          errors |-> <<"Could not generate prediction">>]
    ELSE [state |->
            [st EXCEPT !.predictions_made = @ + 1,
                       !.cats_detected =
                           IF results.predicted_class = "Dog" THEN @ + 1 ELSE @,
                       !.dogs_detected =
                           IF results.predicted_class = "Dog" THEN @ ELSE @ + 1],
          view |-> IF results.confidence >= settings.confidence_threshold
                   THEN "reliable" ELSE "uncertain",
          label |-> results.predicted_class,
          calls |-> IF settings.show_probabilities
                    THEN <<"render_probability_section">> ELSE <<>>,
          errors |-> <<>>]

\* A dog counted as a prediction but not as a dog.
catsonly_render_prediction_results(st, results, settings) ==
    IF results = None
    THEN [state |-> st, view |-> "none", label |-> "none", calls |-> <<>>,
          errors |-> <<"Could not generate prediction">>]
    ELSE [state |->
            [st EXCEPT !.predictions_made = @ + 1,
                       !.cats_detected =
                           IF results.predicted_class = "Cat" THEN @ + 1 ELSE @],
          view |-> IF results.confidence >= settings.confidence_threshold
                   THEN "reliable" ELSE "uncertain",
          label |-> results.predicted_class,
          calls |-> IF settings.show_probabilities
                    THEN <<"render_probability_section">> ELSE <<>>,
          errors |-> <<>>]

\* A confidence equal to the threshold shown as uncertain.
strict_render_prediction_results(st, results, settings) ==
    IF results = None
    THEN [state |-> st, view |-> "none", label |-> "none", calls |-> <<>>,
          errors |-> <<"Could not generate prediction">>]
    ELSE [state |->
            [st EXCEPT !.predictions_made = @ + 1,
                       !.cats_detected =
                           IF results.predicted_class = "Cat" THEN @ + 1 ELSE @,
                       !.dogs_detected =
                           IF results.predicted_class = "Cat" THEN @ ELSE @ + 1],
          view |-> IF results.confidence > settings.confidence_threshold
                   THEN "reliable" ELSE "uncertain",
          label |-> results.predicted_class,
          calls |-> IF settings.show_probabilities
                    THEN <<"render_probability_section">> ELSE <<>>,
          errors |-> <<>>]

\* Lines 324-428: the counters, then the reliable view ("It's a <label>!")
\* or the uncertain one ("Uncertain Prediction", "Best Guess: <label>"), then
\* the probability section when it is switched on.
render_prediction_results(st, results, settings) ==
    IF results = None
    THEN [state |-> st, view |-> "none", label |-> "none", calls |-> <<>>,
          errors |-> <<"Could not generate prediction">>]
    ELSE [state |->
            [st EXCEPT !.predictions_made = @ + 1,
                       !.cats_detected =
                           IF results.predicted_class = "Cat" THEN @ + 1 ELSE @,
                       !.dogs_detected =
                           IF results.predicted_class = "Cat" THEN @ ELSE @ + 1],
          view |-> IF results.confidence >= settings.confidence_threshold
                   THEN "reliable" ELSE "uncertain",
          label |-> results.predicted_class,
          calls |-> IF settings.show_probabilities
                    THEN <<"render_probability_section">> ELSE <<>>,
          errors |-> <<>>]

\* ---- main(): one script run, step by step --------------------------------
Step(s, to, r, calls, errs) ==
    /\ pc' = [pc EXCEPT ![s] = to]
    /\ run' = [run EXCEPT ![s] =
                 [r EXCEPT !.trace = @ \o calls, !.errors = @ \o errs]]

\* st.stop(), or the end of the __main__ block: the run is over.
Finish(s, how, r, calls, errs) ==
    /\ pc' = [pc EXCEPT ![s] = "idle"]
    /\ run' = [run EXCEPT ![s] =
                 [r EXCEPT !.trace = @ \o calls, !.errors = @ \o errs,
                           !.outcome = how]]

\* Lines 73-88.
MainLoadModel(s, downloads) ==
    /\ pc[s] = "load"
    /\ LET st0 == [ss[s] EXCEPT !.keys = @ \cup {"model", "model_loaded"}]
       IN  IF st0.model_loaded
           THEN /\ ss' = [ss EXCEPT ![s] = st0]
                /\ Step(s, "sidebar", run[s], <<>>, <<>>)
                /\ UNCHANGED procVars
           ELSE \E dl \in downloads :
                  LET out == load_model(cache, disk, dl)
                  IN  /\ ss' = [ss EXCEPT ![s] =
                                  [st0 EXCEPT !.model = out.model,
                                              !.model_loaded = TRUE]]
                      /\ cache' = out.cache
                      /\ disk' = out.disk
                      /\ loadRuns' = IF out.ran THEN loadRuns + 1 ELSE loadRuns
                      /\ loadCalls' = IF out.ran THEN out.calls ELSE loadCalls
                      /\ IF out.model # NoModel
                         THEN Step(s, "sidebar", run[s], <<"load_model">>,
                                   out.errors)
                         ELSE Finish(s, "stopped", run[s],
                                     <<"load_model", "st.stop">>,
                                     out.errors \o <<"Failed to load model">>)
    /\ UNCHANGED <<widgets, unitVars>>

\* Line 97: "if st.session_state.model is None" stops the run.
bad_model_available(model) == TRUE

model_available(model) == model # NoModel

\* Lines 91-99.
RenderSidebar(s) ==
    /\ pc[s] = "sidebar"
    /\ LET side == render_sidebar(ss[s], ss[s].model)
           r    == [run[s] EXCEPT !.shown = side.shown]
       IN  /\ ss' = [ss EXCEPT ![s] = side.state]
           /\ IF ~model_available(ss[s].model)
              THEN Finish(s, "stopped", r,
                          <<"render_sidebar", "render_header", "st.stop">>,
                          side.errors \o <<"Model not available">>)
              ELSE Step(s, "upload", r, <<"render_sidebar", "render_header">>,
                        side.errors)
    /\ UNCHANGED <<procVars, widgets, unitVars>>

\* Lines 101-108 and 128-160.
RenderUpload(s) ==
    /\ pc[s] = "upload"
    /\ LET f == widgets[s].uploaded_file
           d == render_image_display(f)
       IN  IF f.none
           THEN Step(s, "footer", run[s], <<"render_file_uploader">>, <<>>)
           ELSE Step(s, IF d.tensor = NoTensor THEN "footer" ELSE "predict",
                     [run[s] EXCEPT !.tensor = d.tensor],
                     <<"render_file_uploader">> \o d.calls, d.errors)
    /\ UNCHANGED <<procVars, ss, widgets, unitVars>>

\* The button's return value ignored.
eager_Predict(s) ==
    /\ pc[s] = "predict"
    /\ LET p == predict_image(ss[s].model, run[s].tensor)
       IN  Step(s, "results", [run[s] EXCEPT !.results = p.results],
                <<"render_prediction_button", "predict_image">>, p.errors)
    /\ UNCHANGED <<procVars, ss, widgets, unitVars>>

\* The prediction counted where it is made.
counting_Predict(s) ==
    /\ pc[s] = "predict"
    /\ LET p == predict_image(ss[s].model, run[s].tensor)
       IN  IF ~run[s].clicked
           THEN /\ Step(s, "footer", run[s], <<"render_prediction_button">>,
                        <<>>)
                /\ UNCHANGED ss
           ELSE /\ Step(s, "results", [run[s] EXCEPT !.results = p.results],
                        <<"render_prediction_button", "predict_image">>,
                        p.errors)
                /\ ss' = [ss EXCEPT ![s].predictions_made = @ + 1]
    /\ UNCHANGED <<procVars, widgets, unitVars>>

\* Lines 109-115.
Predict(s) ==
    /\ pc[s] = "predict"
    /\ LET p == predict_image(ss[s].model, run[s].tensor)
       IN  IF ~run[s].clicked
           THEN Step(s, "footer", run[s], <<"render_prediction_button">>, <<>>)
           ELSE Step(s, "results", [run[s] EXCEPT !.results = p.results],
                     <<"render_prediction_button", "predict_image">>, p.errors)
    /\ UNCHANGED <<procVars, ss, widgets, unitVars>>

\* The dictionary render_sidebar returns (sidebar.py lines 255-261).
settings(s) ==
    [confidence_threshold |-> widgets[s].confidence_threshold,
     show_probabilities |-> widgets[s].show_probabilities]

\* The counters kept once for the process instead of once per session.
shared_ShowResults(s) ==
    /\ pc[s] = "results"
    /\ LET res   == run[s].results
           thr   == settings(s).confidence_threshold
           shown == render_prediction_results(ss[s], res, settings(s))
           r     == IF res # None
                    THEN [run[s] EXCEPT !.view = shown.view,
                                        !.label = shown.label]
                    ELSE run[s]
           calls == IF res # None
                    THEN <<"render_prediction_results">> \o shown.calls
                    ELSE <<>>
       IN  /\ ss' = [t \in Sessions |->
                       IF res = None THEN ss[t]
                       ELSE [ss[t] EXCEPT
                               !.predictions_made = shown.state.predictions_made,
                               !.cats_detected = shown.state.cats_detected,
                               !.dogs_detected = shown.state.dogs_detected]]
           /\ IF res = None
              THEN Step(s, "except", r, calls, <<>>)
              ELSE IF res.confidence >= thr
              THEN Step(s, "footer", r, calls \o <<"st.balloons">>, <<>>)
              ELSE Step(s, "footer", r, calls,
                        <<"Failed to make prediction">>)
    /\ UNCHANGED <<procVars, widgets, unitVars>>

\* Lines 117-126.  The test of line 122 stands outside the "if results:" of
\* line 118, so it subscripts None when predict_image returned None.
ShowResults(s) ==
    /\ pc[s] = "results"
    /\ LET res   == run[s].results
           thr   == settings(s).confidence_threshold
           shown == render_prediction_results(ss[s], res, settings(s))
           r     == IF res # None
                    THEN [run[s] EXCEPT !.view = shown.view,
                                        !.label = shown.label]
                    ELSE run[s]
           calls == IF res # None
                    THEN <<"render_prediction_results">> \o shown.calls
                    ELSE <<>>
       IN  /\ ss' = [ss EXCEPT ![s] = IF res # None THEN shown.state ELSE @]
           /\ IF res = None
              THEN Step(s, "except", r, calls, <<>>)
              ELSE IF res.confidence >= thr
              THEN Step(s, "footer", r, calls \o <<"st.balloons">>, <<>>)
              ELSE Step(s, "footer", r, calls,
                        <<"Failed to make prediction">>)
    /\ UNCHANGED <<procVars, widgets, unitVars>>

\* Line 175.
Footer(s) ==
    /\ pc[s] = "footer"
    /\ Finish(s, "completed", run[s], <<"render_footer">>, <<>>)
    /\ UNCHANGED <<procVars, ss, widgets, unitVars>>

\* Lines 176-182: an exception came out of main().
CatchException(s) ==
    /\ pc[s] = "except"
    /\ Finish(s, "crashed", run[s], <<>>, <<"Application Error">>)
    /\ UNCHANGED <<procVars, ss, widgets, unitVars>>

\* One step of the process, the user picking among `files` and `stops` and the
\* download ending in one of `downloads`.
NextWith(files, stops, downloads) ==
    \E s \in Sessions :
        \/ Rerun(s)
        \/ \E t \in stops : MoveSlider(s, t)
        \/ \E f \in files : UploadFile(s, f)
        \/ ToggleOption(s)
        \/ ClickPredict(s)
        \/ MainLoadModel(s, downloads)
        \/ RenderSidebar(s)
        \/ RenderUpload(s)
        \/ Predict(s)
        \/ ShowResults(s)
        \/ Footer(s)
        \/ CatchException(s)

\* One browser session, any artifact, any upload.
Init == InitWith(DiskStates, {1}) /\ UnitIdle
Next == NextWith(Files \cup {NoFile}, Thresholds, Downloads)
Spec == Init /\ [][Next]_vars

\* Two browser sessions served by the same process, each with no upload or
\* the accepted RGB picture.
PairFiles == {NoFile} \cup {f \in Files : validate_image(f).ok
                                         /\ f.content.kind = "image"
                                         /\ f.content.mode = "RGB"}
PairStops == {80, 100}
PairDownloads == {dl \in Downloads : dl.file \in {Absent, Artifact(Sigmoid)}}
InitPair == InitWith({Absent, Artifact(Mismatch)}, Sessions) /\ UnitIdle
NextPair == NextWith(PairFiles, PairStops, PairDownloads)
SpecPair == InitPair /\ [][NextPair]_vars

\* ---- predict_image on its own --------------------------------------------
\* Output rows a model can yield: one sigmoid scalar, or a vector.
VecProbs == {0, 25, 50, 75, 100}
RawOutputs ==
    {<<p>> : p \in 0..Scale} \cup {<<0 - 10>>, <<Scale + 10>>}
      \cup UNION {[1..n -> VecProbs] : n \in 0..MaxOut}

UnitModels == {NoModel, Mismatch} \cup {Net(FALSE, row, row) : row \in RawOutputs}
UnitTensor ==
    preprocess_image(Upload(<<"d",".","j","p","g">>, 2048,
                            Picture("RGB", 500, 300, "A"))).tensor

InitUnit ==
    /\ InitWith({Absent}, {})
    /\ net \in UnitModels
    /\ answer = Pending
    /\ ImageIdle

CallPredict ==
    /\ answer = Pending
    /\ answer' = predict_image(net, UnitTensor).results
    /\ UNCHANGED <<procVars, ss, widgets, pc, run, net, photo, verdict,
                   prepared>>

SpecUnit == InitUnit /\ [][CallPredict]_vars

\* ---- validate_image and preprocess_image on their own --------------------
\* Names with and without an allowed extension, in either case, with several
\* dots, with none and with a trailing one.
UnitNames ==
    { <<"d",".","J","P","G">>, <<"c",".","v","1",".","p","n","g">>,
      <<"e",".","J","p","E","g">>, <<"f",".","B","m","p">>,
      <<"j","p","g">>, <<"a",".","g","i","f">>,
      <<"g",".","p","n","g",".">>, <<"h",".","j","p","g",".","t","x","t">>,
      <<"p","n","g",".","x">> }
\* Sizes in bytes on either side of the cap.
UnitSizes == {2048, SIZE_CAP - 1, SIZE_CAP, SIZE_CAP + 1}
UnitModes == {"RGB", "RGBA", "L", "P", "CMYK"}
UnitSides == {1, 224, 500}
UnitContents ==
    {Corrupt} \cup {Picture(m, w, h, "A") :
                       m \in UnitModes, w \in UnitSides, h \in UnitSides}
UnitFiles ==
    {Upload(n, z, c) : n \in UnitNames, z \in UnitSizes, c \in UnitContents}

InitImage ==
    /\ InitWith({Absent}, {})
    /\ net = NoModel
    /\ answer = Pending
    /\ photo \in UnitFiles
    /\ verdict = Pending
    /\ prepared = Pending

CallValidate ==
    /\ verdict = Pending
    /\ verdict' = validate_image(photo)
    /\ UNCHANGED <<procVars, ss, widgets, pc, run, net, answer, photo,
                   prepared>>

CallPreprocess ==
    /\ prepared = Pending
    /\ prepared' = preprocess_image(photo)
    /\ UNCHANGED <<procVars, ss, widgets, pc, run, net, answer, photo,
                   verdict>>

NextImage == CallValidate \/ CallPreprocess
SpecImage == InitImage /\ [][NextImage]_vars

\* ==========================================================================
\* Properties
\* ==========================================================================
Counters(st) == <<st.predictions_made, st.cats_detected, st.dogs_detected>>

\* C1: an upload whose extension is outside jpg/jpeg/png/bmp, or whose size is
\* above 10 MiB, is rejected by validate_image with an error report, and
\* preprocess_image (the decode) is never invoked on it in that run.
C1_RejectedWithoutDecode ==
    \A s \in Sessions :
        LET f == widgets[s].uploaded_file
        IN  (/\ ~f.none
             /\ Called(s, "validate_image")
             /\ \/ file_extension(f.name) \notin
                      {<<"j","p","g">>, <<"j","p","e","g">>, <<"p","n","g">>,
                       <<"b","m","p">>}
                \/ f.size > 10 * 1024 * 1024)
            => /\ \/ Reported(s, "Unsupported file format")
                  \/ Reported(s, "File too large")
               /\ ~Called(s, "preprocess_image")
               /\ run[s].tensor = NoTensor

\* A 10.5 MiB png went through a whole run: size error, no decode.
C1_Witness ==
    \E s \in Sessions :
        /\ widgets[s].uploaded_file.size = 11010048
        /\ pc[s] = "idle"
        /\ run[s].outcome = "completed"
        /\ Reported(s, "File too large")
        /\ ~Called(s, "preprocess_image")

\* The model's output row is a pair (1-p, p) of complementary probabilities.
IsPair(row) == Len(row) = 2 /\ row[1] + row[2] = Scale

\* C2 as stated: for a pair (cat = 1-p, dog = p) predict_image returns Dog iff
\* p > 0.5, Cat iff p < 0.5, confidence max(p, 1-p), probabilities summing
\* to 1.
C2_LabelStrictBothWays ==
    (answer # Pending /\ ~net.none /\ ~net.raises /\ IsPair(net.A))
    => LET q == net.A[2]
       IN  /\ answer # None
           /\ answer.predicted_class = "Dog" <=> 2 * q > Scale
           /\ answer.predicted_class = "Cat" <=> 2 * q < Scale
           /\ answer.confidence = IF 2 * q >= Scale THEN q ELSE Scale - q
           /\ answer.cat_probability + answer.dog_probability = Scale

\* C2 amended: for a pair (cat = 1-p, dog = p) predict_image returns Dog iff
\* p > 0.5 and Cat iff p <= 0.5 (a tie is a Cat), confidence max(p, 1-p),
\* probabilities summing to 1.
C2_LabelTieIsCat ==
    (answer # Pending /\ ~net.none /\ ~net.raises /\ IsPair(net.A))
    => LET q == net.A[2]
       IN  /\ answer # None
           /\ answer.predicted_class = "Dog" <=> 2 * q > Scale
           /\ answer.predicted_class = "Cat" <=> 2 * q <= Scale
           /\ answer.confidence = IF 2 * q >= Scale THEN q ELSE Scale - q
           /\ answer.cat_probability = Scale - q
           /\ answer.dog_probability = q
           /\ answer.all_probabilities.Cat + answer.all_probabilities.Dog
                = Scale

\* predict_image answered for the pair (0.5, 0.5).
C2_Witness ==
    /\ answer # Pending
    /\ answer # None
    /\ net = Net(FALSE, <<50, 50>>, <<50, 50>>)
    /\ answer.predicted_class = "Cat"
    /\ answer.confidence = 50

\* The session's load_model call came back None.
LoadFailed(st) == st.model_loaded /\ st.model = NoModel

C3_Refused ==
    \A s \in Sessions :
        LoadFailed(ss[s])
        => /\ ~Called(s, "render_file_uploader")
           /\ ~Called(s, "render_prediction_button")
           /\ ~Called(s, "predict_image")
           /\ ~Called(s, "render_prediction_results")
           /\ run[s].pre.model_loaded => ~Called(s, "load_model")
           /\ pc[s] = "idle"
              => /\ run[s].outcome = "stopped"
                 /\ IF run[s].pre.model_loaded
                    THEN Reported(s, "Model not available")
                    ELSE Reported(s, "Failed to load model")

\* C3: once load_model has returned None in a session, the failure is final:
\* no later rerun of the session calls load_model again, renders the file
\* uploader or the predict button, or invokes predict_image, and every such
\* run stops with the model-unavailable error.
C3_LoadFailureIsFinal ==
    /\ []C3_Refused
    /\ [][\A s \in Sessions : LoadFailed(ss[s]) => LoadFailed(ss'[s])]_vars

\* A rerun after the failed load has stopped at line 99.
C3_Witness ==
    \E s \in Sessions :
        /\ LoadFailed(ss[s])
        /\ run[s].pre.model_loaded
        /\ pc[s] = "idle"
        /\ run[s].outcome = "stopped"
        /\ Reported(s, "Model not available")

\* C4: when the button is clicked and predict_image returns None, the run of
\* main ends gracefully: the failure is reported, no exception leaves main,
\* no result is rendered and the counters are unchanged.
C4_InferenceFailureGraceful ==
    \A s \in Sessions :
        (Called(s, "predict_image") /\ run[s].results = None)
        => /\ pc[s] # "except"
           /\ pc[s] = "idle"
              => /\ run[s].outcome = "completed"
                 /\ Reported(s, "Failed to make prediction")
           /\ ~Called(s, "render_prediction_results")
           /\ Counters(ss[s]) = Counters(run[s].pre)

\* The script run of session s is over.
Finished(s) == pc[s] = "idle" /\ run[s].outcome # "none"

\* What the run of session s has added to the session's counters.
Delta(s) ==
    <<ss[s].predictions_made - run[s].pre.predictions_made,
      ss[s].cats_detected - run[s].pre.cats_detected,
      ss[s].dogs_detected - run[s].pre.dogs_detected>>

\* C5: the confidence threshold never changes the computed result: two runs
\* on the same upload with the same model, whatever their thresholds, produce
\* the same results (label, confidence, probabilities) and the same counter
\* updates; the threshold only picks the reliable or the uncertain view.
C5_ThresholdDoesNotChangeResult ==
    \A s, t \in Sessions :
        (/\ Finished(s) /\ Finished(t)
         /\ run[s].clicked /\ run[t].clicked
         /\ widgets[s].uploaded_file = widgets[t].uploaded_file
         /\ ss[s].model = ss[t].model)
        => /\ run[s].results = run[t].results
           /\ Delta(s) = Delta(t)
           /\ run[s].results # None
              => /\ Delta(s)[1] = 1
                 /\ run[s].view \in {"reliable", "uncertain"}
                 /\ run[t].view \in {"reliable", "uncertain"}

\* Two sessions predicted the same upload under different thresholds, one
\* seeing the reliable view and the other the uncertain one.
C5_Witness ==
    \E s, t \in Sessions :
        /\ Finished(s) /\ Finished(t)
        /\ run[s].clicked /\ run[t].clicked
        /\ widgets[s].uploaded_file = widgets[t].uploaded_file
        /\ widgets[s].confidence_threshold # widgets[t].confidence_threshold
        /\ run[s].results # None
        /\ run[s].results = run[t].results
        /\ run[s].view = "reliable"
        /\ run[t].view = "uncertain"

\* C6: the session counters are mutated exactly once per completed
\* prediction: the step that calls render_prediction_results adds 1 to
\* predictions_made and 1 to exactly one of cats_detected (label Cat) and
\* dogs_detected (otherwise), and no other step changes a counter's value
\* (render_sidebar only creates the absent counters at 0).
C6_CountersOncePerPrediction ==
    [][\A s \in Sessions :
         LET rendered == /\ ~Called(s, "render_prediction_results")
                         /\ CalledIn(run'[s], "render_prediction_results")
             c   == Counters(ss[s])
             d   == Counters(ss'[s])
             cat == run'[s].results.predicted_class = "Cat"
         IN  /\ rendered
                => d = <<c[1] + 1, IF cat THEN c[2] + 1 ELSE c[2],
                         IF cat THEN c[3] ELSE c[3] + 1>>
             /\ d # c => rendered
             /\ \A k \in ss'[s].keys \ ss[s].keys :
                    k \in {"predictions_made", "cats_detected",
                           "dogs_detected"}
                    => /\ CalledIn(run'[s], "render_sidebar")
                       /\ ~Called(s, "render_sidebar")
                       /\ d = <<0, 0, 0>>]_vars

\* A Cat was rendered and counted: predictions_made and cats_detected one up.
C6_Witness ==
    \E s \in Sessions :
        /\ Called(s, "render_prediction_results")
        /\ run[s].results.predicted_class = "Cat"
        /\ Counters(run[s].pre) = <<1, 0, 1>>
        /\ Counters(ss[s]) = <<2, 1, 1>>

InSeq(q, x) == \E i \in 1..Len(q) : q[i] = x

\* C7: model loading is one-time: the body of load_model executes at most
\* once in the process, main calls load_model only in a run where
\* model_loaded is false, model_loaded never goes back to false; the body
\* attempts the download iff the artifact file is absent, and always before
\* deserialising.
C7_LoadOnce ==
    [][/\ loadRuns' <= 1
       /\ \A s \in Sessions :
            /\ ss[s].model_loaded => ss'[s].model_loaded
            /\ (~Called(s, "load_model") /\ CalledIn(run'[s], "load_model"))
               => ~ss[s].model_loaded
       /\ loadRuns' # loadRuns
          => /\ InSeq(loadCalls', "gdown.download") <=> ~disk.present
             /\ \A i, j \in 1..Len(loadCalls') :
                    (/\ loadCalls'[i] = "gdown.download"
                     /\ loadCalls'[j] = "keras.load_model") => i < j]_vars

\* Both sessions have loaded; the body ran once, downloading first.
C7_Witness ==
    /\ loadRuns = 1
    /\ \A s \in Sessions : ss[s].model_loaded /\ ss[s].model # NoModel
    /\ loadCalls = <<"gdown.download", "Model downloaded successfully",
                     "keras.load_model">>

\* f comes before g in the calls of the run of session s.
Before(s, f, g) ==
    \E i, j \in 1..Len(run[s].trace) :
        i < j /\ run[s].trace[i] = f /\ run[s].trace[j] = g

\* C8: no silent fallback: a prediction result is rendered, or a counter
\* updated, only in a run in which the model is loaded, validate_image
\* accepted the upload, preprocess_image returned a tensor, the button was
\* clicked and predict_image returned a result, in this order, the result
\* being the one the model's forward pass gives for that tensor.
C8_NoSilentFallback ==
    \A s \in Sessions :
        (\/ Called(s, "render_prediction_results")
         \/ run[s].view # "none"
         \/ (run[s].outcome # "none" /\ Counters(ss[s]) # Counters(run[s].pre)))
        => LET f == widgets[s].uploaded_file
           IN  /\ ss[s].model_loaded /\ ss[s].model # NoModel
               /\ ~f.none
               /\ ~Reported(s, "Invalid image file")
               /\ ~Reported(s, "Unsupported file format")
               /\ ~Reported(s, "File too large")
               /\ ~Reported(s, "Error processing image")
               /\ f.content.kind = "image"
               /\ run[s].tensor # NoTensor
               /\ run[s].tensor.pix = f.content.pix
               /\ run[s].clicked
               /\ Before(s, "validate_image", "preprocess_image")
               /\ Before(s, "preprocess_image", "render_prediction_button")
               /\ Before(s, "render_prediction_button", "predict_image")
               /\ Before(s, "predict_image", "render_prediction_results")
               /\ run[s].results # None
               /\ ~ss[s].model.raises
               /\ LET row == IF f.content.pix = "A" THEN ss[s].model.A
                             ELSE ss[s].model.B
                  IN  /\ Len(row) >= 1
                      /\ run[s].results.dog_probability =
                             IF Len(row) = 1 THEN row[1] ELSE row[2]

\* A result was rendered, in the uncertain view.
C8_Witness ==
    \E s \in Sessions :
        /\ Called(s, "render_prediction_results")
        /\ run[s].view = "uncertain"
        /\ run[s].outcome = "completed"

\* The upload is one validate_image accepts and Image.open decodes.
GoodImage(f) ==
    /\ ~f.none
    /\ f.content.kind = "image"
    /\ file_extension(f.name) \in ALLOWED_EXTENSIONS
    /\ f.size <= SIZE_CAP

\* C9: a decode failure aborts that request only: preprocess_image reports it
\* and returns (None, None); in that run the button is not rendered and
\* predict_image is not invoked; model, model_loaded and the counters are
\* as they were; the next run with a valid image is processed normally
\* (tensor built, button rendered).
C9_DecodeFailureAbortsRequestOnly ==
    \A s \in Sessions :
        /\ Reported(s, "Error processing image")
           => /\ run[s].tensor = NoTensor
              /\ Reported(s, "Failed to process the image")
              /\ ~Called(s, "render_prediction_button")
              /\ ~Called(s, "predict_image")
              /\ ~Called(s, "render_prediction_results")
              /\ ss[s] = run[s].pre
              /\ pc[s] # "except"
              /\ pc[s] = "idle" => run[s].outcome = "completed"
        /\ (/\ run[s].afterBadImage
            /\ GoodImage(widgets[s].uploaded_file)
            /\ Finished(s))
           => /\ run[s].tensor # NoTensor
              /\ run[s].errors = <<>>
              /\ Called(s, "render_prediction_button")
              /\ run[s].outcome = "completed"

\* The run after a decode failure handled a valid image up to the button.
C9_Witness ==
    \E s \in Sessions :
        /\ run[s].afterBadImage
        /\ GoodImage(widgets[s].uploaded_file)
        /\ Finished(s)
        /\ run[s].tensor # NoTensor
        /\ Called(s, "render_prediction_button")

\* The row is a probability distribution over its classes.
IsDistribution(row) ==
    /\ \A i \in 1..Len(row) : row[i] >= 0 /\ row[i] <= Scale
    /\ Len(row) >= 2 =>
         LET Sum[i \in 0..Len(row)] == IF i = 0 THEN 0 ELSE Sum[i - 1] + row[i]
         IN  Sum[Len(row)] = Scale

\* C10 as stated: every result predict_image returns has a label in
\* {Cat, Dog} and a confidence in [0.5, 1.0], for a sigmoid scalar and for a
\* distribution of two or more elements.
C10_ConfidenceAtLeastHalf ==
    (/\ answer # Pending /\ answer # None
     /\ Len(net.A) >= 1 /\ IsDistribution(net.A))
    => /\ answer.predicted_class \in {"Cat", "Dog"}
       /\ 2 * answer.confidence >= Scale
       /\ answer.confidence <= Scale

\* C10 amended: every result predict_image returns has a label in {Cat, Dog}
\* and a confidence in [0.5, 1.0], for a sigmoid scalar in [0, 1] and for a
\* two-element distribution.
C10_ConfidenceAtLeastHalfOfTwo ==
    (/\ answer # Pending /\ answer # None
     /\ Len(net.A) \in {1, 2} /\ IsDistribution(net.A))
    => /\ answer.predicted_class \in {"Cat", "Dog"}
       /\ 2 * answer.confidence >= Scale
       /\ answer.confidence <= Scale

\* predict_image answered for the sigmoid scalar 0.3: Cat at 0.7.
C10_Witness ==
    /\ answer # Pending
    /\ answer # None
    /\ net.A = <<30>>
    /\ answer.predicted_class = "Cat"
    /\ answer.confidence = 70

\* C11: every accepted image that preprocess_image succeeds on, whatever its
\* width, height and colour mode, yields a tensor of shape 1 x 224 x 224 x 3,
\* and an image whose mode is not RGB is converted to RGB before the resize.
C11_FixedShape ==
    (/\ prepared # Pending
     /\ prepared.tensor # NoTensor
     /\ validate_image(photo).ok)
    => /\ prepared.tensor.shape = <<1, 224, 224, 3>>
       /\ photo.content.mode # "RGB"
            => \E i, j \in 1..Len(prepared.steps) :
                  /\ i < j
                  /\ prepared.steps[i] = "convert"
                  /\ prepared.steps[j] = "resize"

C11_Witness ==
    /\ prepared # Pending
    /\ prepared.tensor # NoTensor
    /\ validate_image(photo).ok
    /\ photo.content.mode = "RGBA"
    /\ photo.content.w = 500
    /\ photo.content.h = 1
    /\ prepared.tensor.shape = <<1, 224, 224, 3>>

\* The names of UnitNames whose text after the last "." is, in lower case,
\* jpg, jpeg, png or bmp.
AcceptedNames ==
    { <<"d",".","J","P","G">>, <<"c",".","v","1",".","p","n","g">>,
      <<"e",".","J","p","E","g">>, <<"f",".","B","m","p">>,
      <<"j","p","g">> }

\* C16: validate_image accepts a file exactly when the lower-cased text after
\* the last "." of its name is jpg, jpeg, png or bmp and its size is at most
\* 10 * 1024 * 1024 bytes (that size itself is accepted); the extension is
\* checked first, so a file failing both is reported for its format; a
\* rejected file gets exactly one error, an accepted one none.
C16_ValidateImage ==
    verdict # Pending
    => /\ verdict.ok <=> (photo.name \in AcceptedNames
                            /\ photo.size <= 10485760)
       /\ verdict.ok => verdict.errors = <<>>
       /\ ~verdict.ok => Len(verdict.errors) = 1
       /\ photo.name \notin AcceptedNames
            => verdict.errors = <<"Unsupported file format">>
       /\ (photo.name \in AcceptedNames /\ photo.size > 10485760)
            => verdict.errors = <<"File too large">>

C16_Witness ==
    /\ verdict # Pending
    /\ verdict.ok
    /\ photo.size = 10485760
    /\ photo.name = <<"e",".","J","p","E","g">>

C13_ShapesAgree ==
    \A p \in 0..Scale :
        (answer # Pending /\ net = Net(FALSE, <<p>>, <<p>>))
        => /\ answer = predict_image(Net(FALSE, <<Scale - p, p>>,
                                         <<Scale - p, p>>),
                                     UnitTensor).results
           /\ answer.cat_probability = Scale - p
           /\ answer.dog_probability = p
           /\ answer.confidence = Max(p, Scale - p)
           /\ p > Scale - p => answer.predicted_class = "Dog"
           /\ p < Scale - p => answer.predicted_class = "Cat"

C13_Witness ==
    /\ answer # Pending
    /\ net = Net(FALSE, <<75>>, <<75>>)
    /\ answer = Result(25, 75)

\* C14: the page of a run in which a prediction completes shows the session
\* counters including that prediction: the metrics displayed equal the
\* counters after that prediction's update.
C14_PageShowsUpdatedCounters ==
    \A s \in Sessions :
        (Called(s, "render_prediction_results") /\ Finished(s))
        => run[s].shown = Counters(ss[s])

\* The three counters exist in the session state.
Initialised(st) ==
    {"predictions_made", "cats_detected", "dogs_detected"} \subseteq st.keys

\* C15 as stated: the counters are process-wide, so two sessions of the same
\* process read the same counters.
C15_CountersProcessWide ==
    \A s, t \in Sessions :
        (Initialised(ss[s]) /\ Initialised(ss[t]))
        => Counters(ss[s]) = Counters(ss[t])

\* C15, amended: the counters are per browser session: a session's counters
\* change only in that session's own rendering of a result, by one
\* prediction, so a prediction completed in one session leaves the other
\* session's counters as they were, and no counter is ever reset.
C15_CountersPerSession ==
    [][\A t \in Sessions :
          Counters(ss'[t]) # Counters(ss[t])
          => /\ pc[t] = "results"
             /\ CalledIn(run'[t], "render_prediction_results")
             /\ ss'[t].predictions_made = ss[t].predictions_made + 1]_vars

C15_Witness ==
    \E s, t \in Sessions :
        /\ s # t
        /\ ss[s].predictions_made = MaxPredictions
        /\ Finished(s)
        /\ Initialised(ss[t])
        /\ Finished(t)
        /\ run[t].outcome = "completed"
        /\ run[t].shown = <<0, 0, 0>>
        /\ Counters(ss[t]) = <<0, 0, 0>>

\* C17: the "Failed to make prediction" error is shown in a run iff the
\* button was clicked and predict_image returned no result, and never in a
\* run that also renders a prediction result.
C17_FailureMessageIffNoResult ==
    \A s \in Sessions :
        Finished(s)
        => /\ Reported(s, "Failed to make prediction")
                <=> (Called(s, "predict_image") /\ run[s].results = None)
           /\ ~(/\ Reported(s, "Failed to make prediction")
                /\ Called(s, "render_prediction_results"))

\* C18: once the counters are initialised, predictions_made is the sum of
\* cats_detected and dogs_detected, the three are non-negative, and none of
\* them ever decreases.
C18_CounterInvariant ==
    /\ [](\A s \in Sessions :
            Initialised(ss[s])
            => /\ ss[s].predictions_made
                    = ss[s].cats_detected + ss[s].dogs_detected
               /\ ss[s].predictions_made >= 0
               /\ ss[s].cats_detected >= 0
               /\ ss[s].dogs_detected >= 0)
    /\ [][\A s \in Sessions :
            /\ ss'[s].predictions_made >= ss[s].predictions_made
            /\ ss'[s].cats_detected >= ss[s].cats_detected
            /\ ss'[s].dogs_detected >= ss[s].dogs_detected]_vars

C18_Witness ==
    \E s \in Sessions :
        /\ Initialised(ss[s])
        /\ Counters(ss[s]) = <<2, 1, 1>>

\* C19: a rerun without a click on the predict button (the slider moved, a
\* display option switched, another file uploaded, the page reloaded) calls
\* neither predict_image nor the result renderer and leaves the counters,
\* model and model_loaded as they were.
C19_NoClickNoInference ==
    \A s \in Sessions :
        (/\ run[s].outcome # "none"
         /\ ~run[s].clicked
         /\ run[s].pre.model_loaded)
        => /\ ~Called(s, "predict_image")
           /\ ~Called(s, "render_prediction_results")
           /\ run[s].results = None
           /\ Counters(ss[s]) = Counters(run[s].pre)
           /\ ss[s].model = run[s].pre.model
           /\ ss[s].model_loaded = run[s].pre.model_loaded

C19_Witness ==
    \E s \in Sessions :
        /\ Finished(s)
        /\ run[s].outcome = "completed"
        /\ ~run[s].clicked
        /\ run[s].pre.model_loaded
        /\ run[s].tensor # NoTensor
        /\ Called(s, "render_prediction_button")
        /\ widgets[s].confidence_threshold # DefaultThreshold
        /\ ~widgets[s].show_probabilities
        /\ Counters(ss[s]) = <<1, 0, 1>>
        /\ ~Called(s, "predict_image")

\* C20: a rendered result has exactly one presentation: the reliable one iff
\* confidence >= threshold, equality included, otherwise the uncertain one;
\* both carry the predicted label; the balloons are shown iff the
\* presentation is the reliable one.
C20_OnePresentation ==
    \A s \in Sessions :
        Called(s, "render_prediction_results")
        => /\ run[s].view \in {"reliable", "uncertain"}
           /\ run[s].view = "reliable"
                <=> run[s].results.confidence
                      >= widgets[s].confidence_threshold
           /\ run[s].label = run[s].results.predicted_class
           /\ Called(s, "st.balloons") <=> run[s].view = "reliable"

C20_Witness ==
    \E s \in Sessions :
        /\ Finished(s)
        /\ Called(s, "render_prediction_results")
        /\ run[s].results.confidence = widgets[s].confidence_threshold
        /\ run[s].view = "reliable"
        /\ Called(s, "st.balloons")

\* C21: every result dict predict_image returns is consistent with itself:
\* the confidence is the probability of the predicted class and the larger of
\* the two probabilities, all_probabilities repeats cat_probability and
\* dog_probability, and the label is Dog iff dog_probability is strictly the
\* larger, so a tie is labelled Cat.
C21_ResultConsistent ==
    (answer # Pending /\ answer # None)
    => /\ answer.predicted_class \in {"Cat", "Dog"}
       /\ answer.confidence = answer.all_probabilities[answer.predicted_class]
       /\ answer.confidence >= answer.cat_probability
       /\ answer.confidence >= answer.dog_probability
       /\ answer.confidence \in {answer.cat_probability,
                                  answer.dog_probability}
       /\ answer.all_probabilities.Cat = answer.cat_probability
       /\ answer.all_probabilities.Dog = answer.dog_probability
       /\ answer.predicted_class = "Dog"
            <=> answer.dog_probability > answer.cat_probability

\* A sigmoid output of exactly 0.5 was read: both probabilities are 0.5 and
\* the label is Cat.
C21_Witness ==
    /\ answer # Pending
    /\ answer # None
    /\ net = Net(FALSE, <<50>>, <<50>>)
    /\ answer.cat_probability = answer.dog_probability
    /\ answer.predicted_class = "Cat"

\* C22: when the body of load_model has run, "Model downloaded successfully"
\* was reported only if the artifact file exists after the download step, a
\* model was returned only if the artifact was deserialised, and a failure
\* ended in a None return with an error report and no exception leaving
\* load_model.
C22_LoadModelReports ==
    [][loadRuns' # loadRuns
       => /\ InSeq(loadCalls', "Model downloaded successfully")
               => disk'.present
          /\ cache'.value # NoModel
               => /\ InSeq(loadCalls', "keras.load_model")
                  /\ disk'.present
                  /\ cache'.value = disk'.net
          /\ cache'.value = NoModel
               => \E s \in Sessions :
                     /\ ReportedIn(run'[s], "Error loading model")
                     /\ ss'[s].model = NoModel
                     /\ pc'[s] # "except"]_vars
====
